---- MODULE Spec2Model ----
(***************************************************************************)
(* Model of scripts/compare_assets.py: one run of main() over a root tree  *)
(* and a template tree.  Strings are sequences of code points, a relative  *)
(* path is the sequence of its segments (pathlib's parts), a tree maps the *)
(* relative paths of its regular files to their byte content.              *)
(***************************************************************************)
EXTENDS Integers, Sequences, FiniteSets, TLC

\* Largest number of regular files in one tree.
MaxFiles == 3

(***************************************************************************)
(* Inputs                                                                  *)
(***************************************************************************)
\* File names the trees are built from: "a/b", "a.txt", "b.txt" and a name
\* made of the bytes ESC [ 3 1 m (legal in a POSIX file name).
PathUniverse ==
    { << <<97>>, <<98>> >>,
      << <<97, 46, 116, 120, 116>> >>,
      << <<98, 46, 116, 120, 116>> >>,
      << <<27, 91, 51, 49, 109>> >> }

\* Byte contents a file can have.
Contents == {"X", "Y"}

\* A tree: the regular files below a base directory, by relative path.
Trees ==
    UNION { [S -> Contents] :
            S \in { T \in SUBSET PathUniverse : Cardinality(T) <= MaxFiles } }

EmptyTree == [p \in {} |-> "X"]

Statuses == {"identical", "missing", "different", "additional"}

(***************************************************************************)
(* Strings and paths                                                       *)
(***************************************************************************)
\* Python's str/list "<": lexicographic, a proper prefix is smaller.
RECURSIVE SeqLess(_, _)
SeqLess(s, t) ==
    IF t = <<>> THEN FALSE
    ELSE IF s = <<>> THEN TRUE
    ELSE IF Head(s) # Head(t) THEN Head(s) < Head(t)
    ELSE SeqLess(Tail(s), Tail(t))

\* str(rel_path): the segments joined with "/".
RECURSIVE StrOf(_)
StrOf(p) ==
    IF p = <<>> THEN <<>>
    ELSE IF Len(p) = 1 THEN p[1]
    ELSE p[1] \o <<47>> \o StrOf(Tail(p))

\* A bug variant of PathLess: paths ordered by their string form.
PathLess_byString(p, q) == SeqLess(StrOf(p), StrOf(q))

\* PurePath.__lt__ on POSIX: the lists of parts compared element by element,
\* each part as a string.
RECURSIVE PathLess(_, _)
PathLess(p, q) ==
    IF q = <<>> THEN FALSE
    ELSE IF p = <<>> THEN TRUE
    ELSE IF p[1] # q[1] THEN SeqLess(p[1], q[1])
    ELSE PathLess(Tail(p), Tail(q))

\* sorted(S) for a set of paths.
RECURSIVE sorted(_)
sorted(S) ==
    IF S = {} THEN <<>>
    ELSE LET m == CHOOSE x \in S : \A y \in S \ {x} : PathLess(x, y)
         IN  <<m>> \o sorted(S \ {m})

\* sha256 of a content: equal digests exactly for equal contents.
sha256(c) == <<"sha256", c>>

(***************************************************************************)
(* Tree walker                                                             *)
(***************************************************************************)
\* base.rglob("*"): every file below base and every directory above a file.
rglob(tree) ==
    { [rel |-> p, is_file |-> TRUE] : p \in DOMAIN tree }
    \cup
    UNION { { [rel |-> SubSeq(p, 1, n), is_file |-> FALSE] : n \in 1..(Len(p) - 1) } :
            p \in DOMAIN tree }

\* gather_files, as the set of relative paths of the files found.
gather_files(tree) == { e.rel : e \in { x \in rglob(tree) : x.is_file } }

(***************************************************************************)
(* Reporter                                                                *)
(***************************************************************************)
COLOR_RESET == <<27, 91, 48, 109>>

COLORS ==
    [ identical  |-> <<27, 91, 51, 51, 109>>,
      missing    |-> <<27, 91, 51, 49, 109>>,
      different  |-> <<27, 91, 51, 50, 109>>,
      additional |-> <<27, 91, 51, 54, 109>> ]

SUMMARY_ORDER == <<"identical", "different", "missing", "additional">>

\* status.upper().ljust(9)
UpperLabel ==
    [ identical  |-> "IDENTICAL",
      missing    |-> "MISSING  ",
      different  |-> "DIFFERENT",
      additional |-> "ADDITIONAL" ]

\* key.title().ljust(9)
TitleLabel ==
    [ identical  |-> "Identical",
      missing    |-> "Missing  ",
      different  |-> "Different",
      additional |-> "Additional" ]

\* A float that is the quotient of two counts, kept as the fraction num/den.
Ratio(n, d) == [num |-> n, den |-> d]

\* f"{x:.2f}": x rounded to hundredths (ties to even), as a number of
\* hundredths.
Fmt2(x) ==
    LET n == x.num * 100
        q == n \div x.den
        r == n % x.den
    IN  IF 2 * r > x.den THEN q + 1
        ELSE IF 2 * r = x.den THEN q + (q % 2)
        ELSE q

\* A bug variant of IdenticalRatio: 0.0 for an empty comparison.
IdenticalRatio_zeroWhenEmpty(identical, total) ==
    IF total # 0 THEN Ratio(identical * 100, total) ELSE Ratio(0, 1)

\* identical_ratio of compare_assets.
IdenticalRatio(identical, total) ==
    IF total # 0 THEN Ratio(identical * 100, total) ELSE Ratio(100, 1)

\* percent of a summary line of build_text_report.
SummaryPercent(count, total) ==
    IF total # 0 THEN Ratio(count * 100, total) ELSE Ratio(0, 1)

build_text_report(rep, use_color) ==
    [ kind    |-> "text",
      header  |-> [ total     |-> rep.total,
                    identical |-> rep.counts["identical"],
                    percent   |-> Fmt2(rep.identical_ratio) ],
      lines   |-> [ i \in 1..Len(rep.results) |->
                    [ color |-> IF use_color THEN COLORS[rep.results[i].status] ELSE <<>>,
                      label |-> UpperLabel[rep.results[i].status],
                      path  |-> rep.results[i].path,
                      reset |-> IF use_color THEN COLOR_RESET ELSE <<>> ] ],
      summary |-> [ i \in 1..Len(SUMMARY_ORDER) |->
                    [ color   |-> IF use_color THEN COLORS[SUMMARY_ORDER[i]] ELSE <<>>,
                      title   |-> TitleLabel[SUMMARY_ORDER[i]],
                      reset   |-> IF use_color THEN COLOR_RESET ELSE <<>>,
                      count   |-> rep.counts[SUMMARY_ORDER[i]],
                      percent |-> Fmt2(SummaryPercent(rep.counts[SUMMARY_ORDER[i]], rep.total)) ] ] ]

\* The hexadecimal digit of n as json.dumps writes it.
HexDigit(n) == IF n < 10 THEN 48 + n ELSE 87 + n

\* json.dumps of one character (ensure_ascii, ASCII input).
JsonChar(c) ==
    IF c = 34 THEN <<92, 34>>
    ELSE IF c = 92 THEN <<92, 92>>
    ELSE IF c = 10 THEN <<92, 110>>
    ELSE IF c = 13 THEN <<92, 114>>
    ELSE IF c = 9 THEN <<92, 116>>
    ELSE IF c = 8 THEN <<92, 98>>
    ELSE IF c = 12 THEN <<92, 102>>
    ELSE IF c < 32 THEN <<92, 117, 48, 48, HexDigit(c \div 16), HexDigit(c % 16)>>
    ELSE <<c>>

\* json.dumps of a string, without the quotes.
RECURSIVE JsonEscape(_)
JsonEscape(s) ==
    IF s = <<>> THEN <<>> ELSE JsonChar(Head(s)) \o JsonEscape(Tail(s))

build_json_report(rep) ==
    [ kind            |-> "json",
      total           |-> rep.total,
      identical_ratio |-> rep.identical_ratio,
      counts          |-> rep.counts,
      files           |-> [ i \in 1..Len(rep.results) |->
                            [ status |-> rep.results[i].status,
                              path   |-> JsonEscape(rep.results[i].path) ] ] ]

\* A bug variant of color_enabled: the report file is not looked at.
color_enabled_ignoresFile(a, tty) == tty

\* color_enabled of main (text format): no report file and stdout a terminal.
color_enabled(a, tty) == ~a.report_file /\ tty

(***************************************************************************)
(* State                                                                   *)
(***************************************************************************)
VARIABLES
    args,             \* parsed options: format, report_file (given or not)
    isatty,           \* sys.stdout.isatty()
    root_exists,      \* root_assets.exists()
    template_exists,  \* template_assets.exists()
    root_tree,        \* files below the root directory
    template_tree,    \* files below the template directory
    fs,               \* the report file and its parent directory
    fs0,              \* fs as it was when the run started
    stdout,           \* what has been printed
    stderr,           \* messages of the interpreter on exit
    exit_code,        \* <<>> while running, <<code>> once exited
    pc,               \* position in main
    walked,           \* directories gather_files has walked
    all_paths,        \* the sorted union of the keys
    i,                \* index of the next rel_path in all_paths
    root_hash,        \* <<>> or the digest of the root file of rel_path
    results,          \* results of compare_assets
    counts,           \* counts of compare_assets
    hash_log,         \* the calls of hash_file, in order
    io_failed,        \* <<>> or the hash_file call that raised
    report,           \* the value compare_assets returned
    output_text       \* output_text of main

vars == << args, isatty, root_exists, template_exists, root_tree, template_tree,
           fs, fs0, stdout, stderr, exit_code, pc, walked, all_paths, i,
           root_hash, results, counts, hash_log, io_failed, report, output_text >>

ZeroCounts == [s \in Statuses |-> 0]

NoReport == [kind |-> "none"]

\* States of the report file and of its parent directory before the run.
InitialFs ==
    { [parent_dir |-> FALSE, file |-> [kind |-> "absent"]],
      [parent_dir |-> TRUE,  file |-> [kind |-> "old"]] }

Init ==
    /\ args \in [format : {"text", "json"}, report_file : BOOLEAN]
    /\ isatty \in BOOLEAN
    /\ root_exists \in BOOLEAN
    /\ template_exists \in BOOLEAN
    /\ root_tree \in (IF root_exists THEN Trees ELSE {EmptyTree})
    /\ template_tree \in (IF template_exists THEN Trees ELSE {EmptyTree})
    /\ fs \in InitialFs
    /\ fs0 = fs
    /\ stdout = <<>>
    /\ stderr = <<>>
    /\ exit_code = <<>>
    /\ pc = "validate"
    /\ walked = <<>>
    /\ all_paths = <<>>
    /\ i = 1
    /\ root_hash = <<>>
    /\ results = <<>>
    /\ counts = ZeroCounts
    /\ hash_log = <<>>
    /\ io_failed = <<>>
    /\ report = NoReport
    /\ output_text = NoReport

(***************************************************************************)
(* main                                                                    *)
(***************************************************************************)
\* raise SystemExit(message): the message goes to stderr, the exit code is 1.
SystemExit(message, path) ==
    /\ stderr' = Append(stderr, [message |-> message, path |-> path])
    /\ exit_code' = <<1>>
    /\ pc' = "exited"

\* A bug variant of Validate: the template directory is not checked.
Validate_rootOnly ==
    /\ pc = "validate"
    /\ IF ~root_exists
       THEN SystemExit("Root assets folder not found", "root_assets")
       ELSE pc' = "gather" /\ UNCHANGED <<stderr, exit_code>>
    /\ UNCHANGED << args, isatty, root_exists, template_exists, root_tree,
                    template_tree, fs, fs0, stdout, walked, all_paths, i,
                    root_hash, results, counts, hash_log, io_failed, report,
                    output_text >>

\* The existence checks of main.
Validate ==
    /\ pc = "validate"
    /\ IF ~root_exists
       THEN SystemExit("Root assets folder not found", "root_assets")
       ELSE IF ~template_exists
       THEN SystemExit("Template assets folder not found", "template_assets")
       ELSE pc' = "gather" /\ UNCHANGED <<stderr, exit_code>>
    /\ UNCHANGED << args, isatty, root_exists, template_exists, root_tree,
                    template_tree, fs, fs0, stdout, walked, all_paths, i,
                    root_hash, results, counts, hash_log, io_failed, report,
                    output_text >>

(***************************************************************************)
(* compare_assets                                                          *)
(***************************************************************************)
\* The keys of root_map and of template_map.
root_map == gather_files(root_tree)
template_map == gather_files(template_tree)

\* Both trees are walked, the maps built and the union of the keys sorted.
Gather ==
    /\ pc = "gather"
    /\ walked' = <<"root_assets", "template_assets">>
    /\ all_paths' = sorted(root_map \cup template_map)
    /\ results' = <<>>
    /\ counts' = ZeroCounts
    /\ i' = 1
    /\ pc' = "loop"
    /\ UNCHANGED << args, isatty, root_exists, template_exists, root_tree,
                    template_tree, fs, fs0, stdout, stderr, exit_code,
                    root_hash, hash_log, io_failed, report, output_text >>

InLoop == pc = "loop" /\ i <= Len(all_paths)

rel_path == all_paths[i]

InBoth == rel_path \in root_map /\ rel_path \in template_map

\* A bug variant of HashRoot: the template file is hashed on both sides.
HashRoot_templateTwice ==
    /\ InLoop /\ InBoth /\ root_hash = <<>>
    /\ root_hash' = <<sha256(template_tree[rel_path])>>
    /\ hash_log' = Append(hash_log, [tree |-> "template", path |-> rel_path])
    /\ UNCHANGED << args, isatty, root_exists, template_exists, root_tree,
                    template_tree, fs, fs0, stdout, stderr, exit_code, pc,
                    walked, all_paths, i, results, counts, io_failed, report,
                    output_text >>

\* hash_file(root_file) returns: the left operand of the comparison.
HashRoot ==
    /\ InLoop /\ InBoth /\ root_hash = <<>>
    /\ root_hash' = <<sha256(root_tree[rel_path])>>
    /\ hash_log' = Append(hash_log, [tree |-> "root", path |-> rel_path])
    /\ UNCHANGED << args, isatty, root_exists, template_exists, root_tree,
                    template_tree, fs, fs0, stdout, stderr, exit_code, pc,
                    walked, all_paths, i, results, counts, io_failed, report,
                    output_text >>

\* A bug variant of StatusOf: the two one-sided statuses are exchanged.
StatusOf_swapped(template_hash) ==
    IF InBoth
    THEN IF root_hash[1] = template_hash THEN "identical" ELSE "different"
    ELSE IF rel_path \in template_map /\ rel_path \notin root_map THEN "additional"
    ELSE "missing"

\* The status of rel_path, template_hash being the digest of the template
\* file when the path is in both trees.
StatusOf(template_hash) ==
    IF InBoth
    THEN IF root_hash[1] = template_hash THEN "identical" ELSE "different"
    ELSE IF rel_path \in template_map /\ rel_path \notin root_map THEN "missing"
    ELSE "additional"

\* A bug variant of Record: the count of "identical" is the one incremented.
Record_wrongKey(status) ==
    /\ counts' = [counts EXCEPT !["identical"] = @ + 1]
    /\ results' = Append(results, [status |-> status, path |-> StrOf(rel_path)])
    /\ i' = i + 1
    /\ root_hash' = <<>>

\* counts[status] += 1; results.append(...)
Record(status) ==
    /\ counts' = [counts EXCEPT ![status] = @ + 1]
    /\ results' = Append(results, [status |-> status, path |-> StrOf(rel_path)])
    /\ i' = i + 1
    /\ root_hash' = <<>>

\* hash_file(template_file) returns and the path is classified.
HashTemplateAndClassify ==
    /\ InLoop /\ InBoth /\ root_hash # <<>>
    /\ hash_log' = Append(hash_log, [tree |-> "template", path |-> rel_path])
    /\ Record(StatusOf(sha256(template_tree[rel_path])))
    /\ UNCHANGED << args, isatty, root_exists, template_exists, root_tree,
                    template_tree, fs, fs0, stdout, stderr, exit_code, pc,
                    walked, all_paths, io_failed, report, output_text >>

\* A path of one tree only is classified without hashing.
ClassifyUnshared ==
    /\ InLoop /\ ~InBoth
    /\ Record(StatusOf(<<>>))
    /\ UNCHANGED << args, isatty, root_exists, template_exists, root_tree,
                    template_tree, fs, fs0, stdout, stderr, exit_code, pc,
                    walked, all_paths, hash_log, io_failed, report,
                    output_text >>

\* A bug variant of HashRaises: the error is caught and the path reported
\* as different.
HashRaises_downgraded ==
    /\ InLoop /\ InBoth
    /\ LET call == [tree |-> IF root_hash = <<>> THEN "root" ELSE "template",
                    path |-> rel_path]
       IN  /\ hash_log' = Append(hash_log, call)
           /\ io_failed' = <<call>>
    /\ Record("different")
    /\ UNCHANGED << args, isatty, root_exists, template_exists, root_tree,
                    template_tree, fs, fs0, stdout, stderr, exit_code, pc,
                    walked, all_paths, report, output_text >>

\* hash_file raises OSError: nothing catches it, the interpreter prints the
\* traceback and exits with code 1.
HashRaises ==
    /\ InLoop /\ InBoth
    /\ LET call == [tree |-> IF root_hash = <<>> THEN "root" ELSE "template",
                    path |-> rel_path]
       IN  /\ hash_log' = Append(hash_log, call)
           /\ io_failed' = <<call>>
    /\ SystemExit("Traceback: OSError", IF root_hash = <<>> THEN "root_file" ELSE "template_file")
    /\ UNCHANGED << args, isatty, root_exists, template_exists, root_tree,
                    template_tree, fs, fs0, stdout, walked, all_paths, i,
                    root_hash, results, counts, report, output_text >>

\* total, identical_ratio and the returned dict.
Return ==
    /\ pc = "loop" /\ i > Len(all_paths)
    /\ LET total == counts["identical"] + counts["missing"]
                    + counts["different"] + counts["additional"]
       IN  report' = [ kind            |-> "report",
                       total           |-> total,
                       counts          |-> counts,
                       identical_ratio |-> IdenticalRatio(counts["identical"], total),
                       results         |-> results ]
    /\ pc' = "format"
    /\ UNCHANGED << args, isatty, root_exists, template_exists, root_tree,
                    template_tree, fs, fs0, stdout, stderr, exit_code, walked,
                    all_paths, i, root_hash, results, counts, hash_log,
                    io_failed, output_text >>

(***************************************************************************)
(* main, after compare_assets                                              *)
(***************************************************************************)
BuildOutput ==
    /\ pc = "format"
    /\ output_text' = IF args.format = "json"
                      THEN build_json_report(report)
                      ELSE build_text_report(report, color_enabled(args, isatty))
    /\ pc' = "write"
    /\ UNCHANGED << args, isatty, root_exists, template_exists, root_tree,
                    template_tree, fs, fs0, stdout, stderr, exit_code, walked,
                    all_paths, i, root_hash, results, counts, hash_log,
                    io_failed, report >>

\* A bug variant of WriteOutput: the report is also printed when it goes to
\* the file.
WriteOutput_alsoPrints ==
    /\ pc = "write"
    /\ IF args.report_file
       THEN fs' = [parent_dir |-> TRUE,
                   file |-> [kind |-> "written", text |-> output_text, end |-> <<10>>]]
       ELSE UNCHANGED fs
    /\ stdout' = Append(stdout, [text |-> output_text, end |-> <<10>>])
    /\ exit_code' = <<0>>
    /\ pc' = "exited"
    /\ UNCHANGED << args, isatty, root_exists, template_exists, root_tree,
                    template_tree, fs0, stderr, walked, all_paths, i,
                    root_hash, results, counts, hash_log, io_failed, report,
                    output_text >>

\* The report goes to the report file or to stdout; main returns.
WriteOutput ==
    /\ pc = "write"
    /\ IF args.report_file
       THEN /\ fs' = [parent_dir |-> TRUE,
                      file |-> [kind |-> "written", text |-> output_text, end |-> <<10>>]]
            /\ UNCHANGED stdout
       ELSE /\ stdout' = Append(stdout, [text |-> output_text, end |-> <<10>>])
            /\ UNCHANGED fs
    /\ exit_code' = <<0>>
    /\ pc' = "exited"
    /\ UNCHANGED << args, isatty, root_exists, template_exists, root_tree,
                    template_tree, fs0, stderr, walked, all_paths, i,
                    root_hash, results, counts, hash_log, io_failed, report,
                    output_text >>

Next ==
    \/ Validate
    \/ Gather
    \/ HashRoot
    \/ HashTemplateAndClassify
    \/ ClassifyUnshared
    \/ HashRaises
    \/ Return
    \/ BuildOutput
    \/ WriteOutput

Spec == Init /\ [][Next]_vars

(***************************************************************************)
(* Properties                                                              *)
(***************************************************************************)
RootPaths == DOMAIN root_tree
TemplatePaths == DOMAIN template_tree
UnionPaths == RootPaths \cup TemplatePaths
SharedPaths == RootPaths \cap TemplatePaths

\* compare_assets has returned.
Compared == report.kind = "report"

\* The status the four-way rule gives a path of the union.
ExpectedStatus(p) ==
    IF p \in SharedPaths
    THEN IF sha256(root_tree[p]) = sha256(template_tree[p])
         THEN "identical" ELSE "different"
    ELSE IF p \in TemplatePaths THEN "missing" ELSE "additional"

\* Number of entries of a result sequence with a status.
CountOf(res, s) == Cardinality({ k \in 1..Len(res) : res[k].status = s })

\* The segments of a path string.
RECURSIVE Parts(_)
Parts(s) ==
    IF \A k \in 1..Len(s) : s[k] # 47 THEN <<s>>
    ELSE LET n == CHOOSE k \in 1..Len(s) :
                    s[k] = 47 /\ \A m \in 1..(k - 1) : s[m] # 47
         IN  <<SubSeq(s, 1, n - 1)>> \o Parts(SubSeq(s, n + 1, Len(s)))

\* Segment-by-segment order of two path strings.
RECURSIVE SegmentwiseLess(_, _)
SegmentwiseLess(p, q) ==
    IF q = <<>> THEN FALSE
    ELSE IF p = <<>> THEN TRUE
    ELSE IF Head(p) # Head(q) THEN SeqLess(Head(p), Head(q))
    ELSE SegmentwiseLess(Tail(p), Tail(q))

\* C1: the result of compare_assets holds every path of the union of the two
\* trees exactly once and no other path, each with the status of the
\* four-way rule (identical, different, missing, additional).
C1_UnionClassifiedOnce ==
    Compared =>
        /\ \A p \in UnionPaths :
             Cardinality({ k \in 1..Len(report.results) :
                             report.results[k].path = StrOf(p) }) = 1
        /\ \A k \in 1..Len(report.results) :
             \E p \in UnionPaths :
                /\ report.results[k].path = StrOf(p)
                /\ report.results[k].status = ExpectedStatus(p)

C1_Witness ==
    /\ Compared
    /\ \A s \in Statuses : CountOf(report.results, s) >= 1

\* C2 as stated: consecutive results are in increasing order of the path
\* strings.
C2_SortedByPathString ==
    Compared =>
        \A k \in 1..(Len(report.results) - 1) :
            SeqLess(report.results[k].path, report.results[k + 1].path)

\* C2 amended: consecutive results are in strictly increasing order of the
\* relative paths compared segment by segment, each segment as a string.
C2_SortedBySegments ==
    Compared =>
        \A k \in 1..(Len(report.results) - 1) :
            SegmentwiseLess(Parts(report.results[k].path),
                            Parts(report.results[k + 1].path))

C2_Witness ==
    /\ Compared
    /\ \E k \in 1..(Len(report.results) - 1) :
          /\ report.results[k].path = <<97, 47, 98>>
          /\ report.results[k + 1].path = <<97, 46, 116, 120, 116>>

\* C3: counts[status] is the number of results with that status, in the loop
\* after every iteration and in the returned report; total is the sum of the
\* counts, the length of the results and the size of the union of the trees.
C3_CountsMatchResults ==
    /\ \A s \in Statuses : counts[s] = CountOf(results, s)
    /\ counts["identical"] + counts["missing"] + counts["different"]
         + counts["additional"] = Len(results)
    /\ Compared =>
          /\ \A s \in Statuses : report.counts[s] = CountOf(report.results, s)
          /\ report.total = report.counts["identical"] + report.counts["missing"]
                            + report.counts["different"] + report.counts["additional"]
          /\ report.total = Len(report.results)
          /\ report.total = Cardinality(UnionPaths)

C3_Witness ==
    /\ Compared
    /\ report.total >= 3
    /\ report.counts["missing"] >= 1
    /\ report.counts["different"] >= 1

\* Number of shared paths whose two files have the same digest.
IdenticalCount ==
    Cardinality({ p \in SharedPaths : sha256(root_tree[p]) = sha256(template_tree[p]) })

\* C4: identical_ratio is identical_count / total * 100 when total > 0 and
\* 100.0 when total is 0; it is 100.0 for two empty trees and for two equal
\* non-empty trees, and always between 0 and 100.
C4_IdenticalRatio ==
    Compared =>
        LET r == report.identical_ratio
            n == Cardinality(UnionPaths)
        IN  /\ r.den > 0
            /\ n > 0 => r.num * n = IdenticalCount * 100 * r.den
            /\ n = 0 => r.num = 100 * r.den
            /\ (root_tree = template_tree) => r.num = 100 * r.den
            /\ 0 <= r.num /\ r.num <= 100 * r.den

C4_Witness ==
    /\ Compared
    /\ UnionPaths = {}
    /\ report.identical_ratio = Ratio(100, 1)

\* C5: when the root or the template directory does not exist, main exits
\* with a non-zero code and a message naming the missing directory, before
\* anything is walked or hashed, with nothing printed and the report file
\* and its directory untouched; exit code 0 needs both directories.
C5_MissingDirectoryExits ==
    /\ (~root_exists \/ ~template_exists) =>
          /\ pc \in {"validate", "exited"}
          /\ walked = <<>> /\ hash_log = <<>>
          /\ report = NoReport /\ output_text = NoReport
          /\ stdout = <<>> /\ fs = fs0
          /\ pc = "exited" =>
                /\ exit_code = <<1>>
                /\ stderr = << IF ~root_exists
                               THEN [message |-> "Root assets folder not found",
                                     path |-> "root_assets"]
                               ELSE [message |-> "Template assets folder not found",
                                     path |-> "template_assets"] >>
    /\ exit_code = <<0>> => root_exists /\ template_exists

C5_Witness ==
    /\ root_exists /\ ~template_exists
    /\ pc = "exited"
    /\ args.report_file

\* Whether a string holds the ESC character.
HasEsc(s) == \E k \in 1..Len(s) : s[k] = 27

\* The report holds a color or reset code written by the reporter.
EmitsColor(text) ==
    /\ text.kind = "text"
    /\ \/ \E k \in 1..Len(text.lines) :
             text.lines[k].color # <<>> \/ text.lines[k].reset # <<>>
       \/ \E k \in 1..Len(text.summary) :
             text.summary[k].color # <<>> \/ text.summary[k].reset # <<>>

\* The report holds an ESC character anywhere.
ContainsEsc(text) ==
    \/ EmitsColor(text)
    \/ /\ text.kind = "text"
       /\ \E k \in 1..Len(text.lines) : HasEsc(text.lines[k].path)
    \/ /\ text.kind = "json"
       /\ \E k \in 1..Len(text.files) : HasEsc(text.files[k].path)

ColorCase == args.format = "text" /\ ~args.report_file /\ isatty

\* C6 as stated: the output holds an escape sequence only when the format is
\* text, no report file is given and stdout is a terminal.
C6_NoEscapeUnlessColorCase ==
    output_text # NoReport => (ContainsEsc(output_text) => ColorCase)

\* C6 amended: the reporter writes color and reset codes only when the format
\* is text, no report file is given and stdout is a terminal; otherwise the
\* only escape characters of a text report are those of the reported paths,
\* and a JSON report holds none.
C6_ColorOnlyInColorCase ==
    output_text # NoReport =>
        /\ EmitsColor(output_text) => ColorCase
        /\ output_text.kind = "json" => ~ContainsEsc(output_text)
        /\ (output_text.kind = "text" /\ ~ColorCase) =>
              \A k \in 1..Len(output_text.lines) :
                 /\ output_text.lines[k].color = <<>>
                 /\ output_text.lines[k].reset = <<>>

C6_Witness ==
    /\ pc = "exited" /\ exit_code = <<0>>
    /\ args.format = "text" /\ args.report_file /\ isatty
    /\ fs.file.kind = "written"
    /\ Len(fs.file.text.lines) >= 2

\* C7: when hash_file raises, the run ends with a failure: the path gets no
\* status, the call is not repeated, nothing is printed, and the report file
\* and its directory are left as they were.
C7_HashErrorAborts ==
    io_failed # <<>> =>
        /\ pc = "exited" /\ exit_code = <<1>>
        /\ report = NoReport /\ output_text = NoReport
        /\ stdout = <<>> /\ fs = fs0
        /\ \A k \in 1..Len(results) : results[k].path # StrOf(io_failed[1].path)
        /\ Cardinality({ k \in 1..Len(hash_log) : hash_log[k] = io_failed[1] }) = 1
        /\ hash_log[Len(hash_log)] = io_failed[1]

C7_Witness ==
    /\ io_failed # <<>>
    /\ io_failed[1].tree = "template"
    /\ Len(results) >= 1
    /\ args.report_file /\ ~fs0.parent_dir

\* C8: a successful run writes the report to one destination, after the
\* comparison: with a report file, the directory exists, the file holds the
\* report text and one newline, and nothing is printed; without one, the
\* report is printed and no file or directory is created.
C8_OneDestination ==
    /\ (stdout # <<>> \/ fs # fs0) =>
          /\ pc = "exited" /\ Compared /\ i > Len(all_paths)
    /\ (pc = "exited" /\ exit_code = <<0>>) =>
          /\ output_text.kind = args.format
          /\ IF args.report_file
             THEN /\ fs.parent_dir
                  /\ fs.file = [kind |-> "written", text |-> output_text, end |-> <<10>>]
                  /\ stdout = <<>>
             ELSE /\ stdout = << [text |-> output_text, end |-> <<10>>] >>
                  /\ fs = fs0

C8_Witness ==
    /\ pc = "exited" /\ exit_code = <<0>>
    /\ args.report_file
    /\ ~fs0.parent_dir /\ fs.parent_dir
    /\ report.total >= 1

\* The calls of hash_file for the shared paths, in the order of a result
\* sequence: the root file, then the template file.
RECURSIVE ExpectedHashLog(_)
ExpectedHashLog(res) ==
    IF res = <<>> THEN <<>>
    ELSE LET P == { p \in SharedPaths : StrOf(p) = Head(res).path }
         IN  (IF P = {} THEN <<>>
              ELSE LET p == CHOOSE x \in P : TRUE
                   IN  << [tree |-> "root", path |-> p],
                          [tree |-> "template", path |-> p] >>)
             \o ExpectedHashLog(Tail(res))

\* C9: hash_file is never called for a path of one tree only; in a completed
\* comparison it has been called twice per shared path, the root file first,
\* in the order of the results, and so 2 * (number of shared paths) times.
C9_TwoHashesPerSharedPath ==
    /\ \A k \in 1..Len(hash_log) : hash_log[k].path \in SharedPaths
    /\ Compared =>
          /\ Len(hash_log) = 2 * Cardinality(SharedPaths)
          /\ hash_log = ExpectedHashLog(report.results)

C9_Witness ==
    /\ Compared
    /\ Cardinality(SharedPaths) >= 2
    /\ UnionPaths # SharedPaths

\* C10: in a text report the percentage of the header equals the percentage
\* of the Identical line of the summary, and the summary lists identical,
\* different, missing, additional in that order.
C10_HeaderMatchesSummary ==
    output_text.kind = "text" =>
        /\ output_text.header.percent = output_text.summary[1].percent
        /\ [k \in 1..4 |-> output_text.summary[k].title]
              = <<"Identical", "Different", "Missing  ", "Additional">>

====
